---- MODULE Spec2Model ----
(***************************************************************************)
(* torpedo / hydrobond: the typed model layer (cafy validators), the API   *)
(* client (Hydrobond) and the reconnecting stream listener                 *)
(* (Hydrobond.stream driven by torpedo's stream command).                  *)
(***************************************************************************)
EXTENDS Integers, Sequences, FiniteSets, TLC

VARIABLES
    given,      \* the stateText and tokenType the client was constructed with
    auth,       \* Hydrobond.auth: the held Authorization
    header,     \* axios.defaults.headers.common['Authorization'], <<>> when unset
    call,       \* the client invocation suspended at its await, or Idle
    req,        \* the HTTP request issued by the current/last invocation, or NoReq
    nreq,       \* number of HTTP requests issued by the current/last invocation
    ret,        \* how the last completed invocation ended, or NoRet
    res,        \* the response the last invocation's await settled with, or NoRes
    conns,      \* one record per hydrobond.stream() call (socket + reconnect timer)
    trace,      \* what the consumer observes, in order
    loops,      \* armed keep-alive loops of torpedo's stream command
    running,    \* FALSE once an uncaught exception has ended the process
    arg,        \* model layer: the raw object handed to a constructor
    made        \* model layer: what the constructor produced (value or throw)

vars == <<given, auth, header, call, req, nreq, ret, res, conns, trace, loops, running, arg, made>>

clientVars == <<given, auth, header, call, req, nreq, ret, res>>
streamVars == <<conns, trace, loops, running>>
modelVars  == <<arg, made>>

-----------------------------------------------------------------------------
(* Bounds of the model *)

\* how far around a length limit the enumerated lengths reach
Slack == 1
\* longest array (files, fileIds, timeline) enumerated
MaxArr == 2
\* longest clientId enumerated, in characters
MaxIdLen == 1
\* stream() calls (first connection + reconnects) explored
MaxConns == 2
\* inbound frames explored, over all connections
MaxFrames == 2
\* disconnect signals explored, over all connections
MaxSignals == 1

-----------------------------------------------------------------------------
(* JSON / JavaScript values.  A string is abstracted to its length and the   *)
(* class of its content: "word" (only [0-9a-zA-Z_]), "date" (Date-parseable), *)
(* "url" (URL-parseable), "free" (none of these).                             *)

Undefined == [t |-> "undefined"]
Null      == [t |-> "null"]
Num(n)    == [t |-> "num", n |-> n]
Str(l, c) == [t |-> "str", len |-> l, cls |-> c]
Arr(s)    == [t |-> "arr", e |-> s]
Obj(r)    == [t |-> "obj", f |-> r]

\* property read: o.k, undefined when the property is absent
Get(o, k) == IF k \in DOMAIN o.f THEN o.f[k] ELSE Undefined

\* a constructor either returns the instance or throws
Ok(v)      == [ok |-> TRUE, val |-> v]
Threw(e)   == [ok |-> FALSE, err |-> e]

-----------------------------------------------------------------------------
(* cafy contexts used by the validators *)

IsStr(v) == v.t = "str"
IsNum(v) == v.t = "num"
IsObj(v) == v.t = "obj"
IsArr(v) == v.t = "arr"
\* $.any: anything but undefined / null
IsAny(v) == v.t \notin {"undefined", "null"}
\* $.optional.<ctx>
Optional(v, okv) == v = Undefined \/ okv
StrMax(v, n)      == IsStr(v) /\ v.len <= n
StrRange(v, a, b) == IsStr(v) /\ v.len >= a /\ v.len <= b
ArrOf(v, P(_))    == IsArr(v) /\ \A i \in DOMAIN v.e : P(v.e[i])

isValidDate(v) == IsStr(v) /\ v.cls = "date"
isValidUrl(v)  == IsStr(v) /\ v.cls = "url"

\* new Date(str), new URL(str)
NewDate(v) == [t |-> "Date", of |-> v]
NewURL(v)  == [t |-> "URL", of |-> v]

\* program constants of the validators
MaxTextLength == 512
MinNameLength == 1
MaxNameLength == 20

\* /^[0-9a-zA-Z_]{1,20}$/
MatchesScreenName(v) ==
    IsStr(v) /\ v.cls = "word" /\ v.len >= MinNameLength /\ v.len <= MaxNameLength

-----------------------------------------------------------------------------
(* The model classes: validate, then copy the fields *)

ApplicationValidate(a) ==
    IsObj(a) /\ IsNum(Get(a, "id")) /\ IsStr(Get(a, "name"))

Application(a) ==
    IF ApplicationValidate(a)
    THEN Ok([id |-> Get(a, "id"), name |-> Get(a, "name")])
    ELSE Threw("Application")

VariantValidate(v) ==
    /\ IsObj(v)
    /\ IsNum(Get(v, "id"))
    /\ IsNum(Get(v, "score"))
    /\ IsStr(Get(v, "extension"))
    /\ IsStr(Get(v, "type"))
    /\ IsNum(Get(v, "size"))
    /\ isValidUrl(Get(v, "url"))
    /\ IsStr(Get(v, "mime"))

FileValidate(f) ==
    /\ IsObj(f)
    /\ IsNum(Get(f, "id"))
    /\ IsStr(Get(f, "name"))
    /\ ArrOf(Get(f, "variants"), VariantValidate)

File(f) ==
    IF FileValidate(f)
    THEN Ok([id |-> Get(f, "id"),
             name |-> Get(f, "name"),
             variants |->
                [i \in DOMAIN Get(f, "variants").e |->
                    LET v == Get(f, "variants").e[i] IN
                    [id |-> Get(v, "id"), score |-> Get(v, "score"),
                     extension |-> Get(v, "extension"), type |-> Get(v, "type"),
                     size |-> Get(v, "size"), url |-> NewURL(Get(v, "url")),
                     mime |-> Get(v, "mime")]]])
    ELSE Threw("File")

UserValidate(a) ==
    /\ IsObj(a)
    /\ isValidDate(Get(a, "createdAt"))
    /\ IsNum(Get(a, "id"))
    /\ StrRange(Get(a, "name"), MinNameLength, MaxNameLength)
    /\ IsNum(Get(a, "postsCount"))
    /\ MatchesScreenName(Get(a, "screenName"))
    /\ isValidDate(Get(a, "updatedAt"))

User(a) ==
    IF UserValidate(a)
    THEN Ok([createdAt |-> NewDate(Get(a, "createdAt")),
             id |-> Get(a, "id"),
             name |-> Get(a, "name"),
             postsCount |-> Get(a, "postsCount"),
             screenName |-> Get(a, "screenName"),
             updatedAt |-> NewDate(Get(a, "updatedAt"))])
    ELSE Threw("User")

UserSettingsValidate(u) ==
    IsObj(u) /\ StrRange(Get(u, "name"), MinNameLength, MaxNameLength)

UserSettings(u) ==
    IF UserSettingsValidate(u)
    THEN Ok([name |-> Get(u, "name")])
    ELSE Threw("UserSettings")

\* the limit taken as exclusive
PostBodyValidate_OffByOne(p) ==
    /\ IsObj(p)
    /\ IsStr(Get(p, "text")) /\ Get(p, "text").len < MaxTextLength
    /\ Optional(Get(p, "fileIds"), ArrOf(Get(p, "fileIds"), IsNum))

PostBodyValidate(p) ==
    /\ IsObj(p)
    /\ StrMax(Get(p, "text"), MaxTextLength)
    /\ Optional(Get(p, "fileIds"), ArrOf(Get(p, "fileIds"), IsNum))

PostBody(p) ==
    IF PostBodyValidate(p)
    THEN Ok([text |-> Get(p, "text"), fileIds |-> Get(p, "fileIds")])
    ELSE Threw("PostBody")

\* Post.validate: its own fields; application, user and the files' elements
\* are only required to be present ($.any)
PostValidate(p) ==
    /\ IsObj(p)
    /\ IsAny(Get(p, "application"))
    /\ isValidDate(Get(p, "createdAt"))
    /\ IsNum(Get(p, "id"))
    /\ StrMax(Get(p, "text"), MaxTextLength)
    /\ isValidDate(Get(p, "updatedAt"))
    /\ IsAny(Get(p, "user"))
    /\ ArrOf(Get(p, "files"), IsAny)

\* the nested objects copied without being constructed
Post_Shallow(p) ==
    IF ~PostValidate(p) THEN Threw("Post")
    ELSE Ok([application |-> Get(p, "application"),
             createdAt |-> NewDate(Get(p, "createdAt")),
             id |-> Get(p, "id"),
             text |-> Get(p, "text"),
             updatedAt |-> NewDate(Get(p, "updatedAt")),
             user |-> Get(p, "user"),
             files |-> Get(p, "files").e])

\* the nested constructors run in the order application, user, files[0..];
\* the first one that throws ends the construction
Post(p) ==
    IF ~PostValidate(p) THEN Threw("Post")
    ELSE
      LET application == Application(Get(p, "application"))
          user        == User(Get(p, "user"))
          raws        == Get(p, "files").e
          files       == [i \in DOMAIN raws |-> File(raws[i])]
      IN  IF ~application.ok THEN application
          ELSE IF ~user.ok THEN user
          ELSE IF \E i \in DOMAIN files : ~files[i].ok
               THEN files[CHOOSE i \in DOMAIN files :
                            ~files[i].ok /\ \A j \in 1..(i - 1) : files[j].ok]
          ELSE Ok([application |-> application.val,
                   createdAt |-> NewDate(Get(p, "createdAt")),
                   id |-> Get(p, "id"),
                   text |-> Get(p, "text"),
                   updatedAt |-> NewDate(Get(p, "updatedAt")),
                   user |-> user.val,
                   files |-> [i \in DOMAIN files |-> files[i].val]])

\* every nested entity of a raw post is valid, judged by its own class
NestedOk(p) ==
    /\ Application(Get(p, "application")).ok
    /\ User(Get(p, "user")).ok
    /\ IsArr(Get(p, "files"))
    /\ \A i \in DOMAIN Get(p, "files").e : File(Get(p, "files").e[i]).ok

-----------------------------------------------------------------------------
(* Raw objects enumerated as inputs *)

SeqsUpTo(S, n) == UNION {[1..k -> S] : k \in 0..n}

TextLens == {0} \cup ((MaxTextLength - Slack)..(MaxTextLength + Slack))
NameLens == {MinNameLength - 1, MinNameLength}
                \cup ((MaxNameLength - Slack)..(MaxNameLength + Slack))

ADate == Str(24, "date")
AUrl  == Str(30, "url")
AText == Str(5, "free")

GoodApplication == Obj([id |-> Num(1), name |-> AText])
GoodUser ==
    Obj([createdAt |-> ADate, id |-> Num(2), name |-> Str(MaxNameLength, "free"),
         postsCount |-> Num(0), screenName |-> Str(MinNameLength, "word"),
         updatedAt |-> ADate])
GoodVariant ==
    Obj([id |-> Num(4), score |-> Num(1), extension |-> Str(3, "word"),
         type |-> Str(5, "word"), size |-> Num(9), url |-> AUrl,
         mime |-> Str(9, "free")])
GoodFile == Obj([id |-> Num(3), name |-> AText, variants |-> Arr(<<GoodVariant>>)])
GoodPost ==
    Obj([application |-> GoodApplication, createdAt |-> ADate, id |-> Num(5),
         text |-> Str(MaxTextLength, "free"), updatedAt |-> ADate,
         user |-> GoodUser, files |-> Arr(<<GoodFile>>)])

\* o with property k set to v
With(o, k, v) == Obj([x \in DOMAIN o.f |-> IF x = k THEN v ELSE o.f[x]])

NonObjects == {Undefined, Null, Num(1), AText}

RawApplications ==
    {Obj([id |-> i, name |-> n]) :
        i \in {Num(1), Str(1, "word"), Undefined},
        n \in {AText, Num(2), Undefined}} \cup NonObjects

RawUsers ==
    {Obj([createdAt |-> c, id |-> i, name |-> n, postsCount |-> Num(0),
          screenName |-> s, updatedAt |-> u]) :
        c \in {ADate, AText},
        i \in {Num(2), Undefined},
        n \in {Str(l, "free") : l \in NameLens} \cup {Undefined},
        s \in {Str(l, "word") : l \in NameLens} \cup {Str(MinNameLength, "free")},
        u \in {ADate, Undefined}} \cup NonObjects

RawVariants ==
    {GoodVariant, With(GoodVariant, "url", AText), With(GoodVariant, "size", Undefined),
     Null}

RawFiles ==
    {Obj([id |-> i, name |-> n, variants |-> v]) :
        i \in {Num(3), Undefined},
        n \in {AText, Num(1)},
        v \in {Arr(s) : s \in SeqsUpTo(RawVariants, MaxArr)} \cup {Undefined}}
      \cup NonObjects

RawUserSettings ==
    {Obj([name |-> n]) : n \in {Str(l, "free") : l \in NameLens} \cup {Undefined, Num(1)}}
      \cup NonObjects

RawTexts == {Str(l, "free") : l \in TextLens} \cup {Undefined, Null, Num(7)}

RawFileIds ==
    {Arr(s) : s \in SeqsUpTo({Num(1), Str(1, "word"), Null}, MaxArr)}
      \cup {Undefined, Null, Num(1), AText}

RawPostBodies ==
    {Obj([text |-> x, fileIds |-> f]) : x \in RawTexts, f \in RawFileIds}
      \cup NonObjects

\* nested entities tried inside a Post
NestedApplications == {GoodApplication, With(GoodApplication, "id", Undefined), Undefined}
NestedUsers ==
    {GoodUser, With(GoodUser, "screenName", Str(MaxNameLength + 1, "word")), Null}
NestedFiles == {GoodFile, With(GoodFile, "variants", Arr(<<With(GoodVariant, "url", AText)>>))}

RawPosts ==
    {Obj([application |-> a, createdAt |-> c, id |-> i, text |-> x,
          updatedAt |-> ADate, user |-> u, files |-> f]) :
        a \in NestedApplications,
        c \in {ADate, AText},
        i \in {Num(5), Undefined},
        x \in {Str(l, "free") : l \in TextLens} \cup {Undefined},
        u \in NestedUsers,
        f \in {Arr(s) : s \in SeqsUpTo(NestedFiles, MaxArr)} \cup {Undefined}}
      \cup NonObjects

-----------------------------------------------------------------------------
(* Initial values of the three parts of the state *)

Idle  == [op |-> "idle"]
NoReq == [method |-> "none"]
NoVal == [none |-> TRUE]
NoRes == [none |-> TRUE]
NoRet == [inv |-> Idle, ok |-> FALSE, val |-> NoVal, err |-> "", status |-> 0]
NoArg == [cls |-> "none", raw |-> Undefined]

ModelIdle  == arg = NoArg /\ made = <<>>
StreamIdle == conns = <<>> /\ trace = <<>> /\ loops = 0 /\ running = TRUE

-----------------------------------------------------------------------------
(* Strings of the client configuration are sequences of characters, so that  *)
(* building and parsing a URL is modelled by what it does.  A literal part of *)
(* a template ("client_id", "/oauth/authorize", ...) is one element.          *)

\* an optional value: <<>> is undefined, <<x>> is x
None    == <<>>
Some(x) == <<x>>

\* a || b on strings: b when a is undefined or ''
OrElse(a, b) == IF a = None \/ a[1] = <<>> THEN b ELSE a[1]

\* characters a clientId is made of: an ordinary one and two URL delimiters
IdChars == {"a", "&", "#"}
\* the client ids enumerated: ordinary ones of each length, and each character
\* on its own
ClientIds == SeqsUpTo({"a"}, MaxIdLen) \cup {<<c>> : c \in IdChars}
\* crypto.randomBytes(8).toString('hex'): two of the possible outcomes
RandomStates == {<<"r1">>, <<"r2">>}
Bearer == <<"Bearer">>
Origin == <<"https://sea.example">>
UndefinedText == <<"undefined">>
Tokens == {<<"tok1">>, <<"tok2">>}

\* new Authorization(a); rnd is what getStateText() returns if it is called
Authorization(a, rnd) ==
    [accessToken  |-> OrElse(a.accessToken, <<>>),
     clientId     |-> OrElse(a.clientId, <<>>),
     clientSecret |-> OrElse(a.clientSecret, <<>>),
     stateText    |-> OrElse(a.stateText, rnd),
     tokenType    |-> OrElse(a.tokenType, Bearer)]

\* `${tokenType} ${accessToken}`
AuthorizationHeader(a) == a.tokenType \o <<" ">> \o a.accessToken

\* the partial Authorization objects a client is constructed from: each field
\* absent or supplied, and two with stateText or tokenType supplied as ''
Partials ==
    [accessToken  : {None, Some(<<"tok0">>)},
     clientId     : {Some(c) : c \in ClientIds},
     clientSecret : {None, Some(<<"s">>)},
     stateText    : {None, Some(<<"x">>)},
     tokenType    : {None, Some(<<"MAC">>)}]
      \cup {[accessToken |-> None, clientId |-> Some(<<"a">>),
              clientSecret |-> Some(<<"s">>), stateText |-> Some(<<>>),
              tokenType |-> t] : t \in {None, Some(<<>>)}}

\* new Hydrobond(endpoint, a)
Constructed(a, rnd) ==
    /\ given = [stateText |-> a.stateText, tokenType |-> a.tokenType]
    /\ auth = Authorization(a, rnd)
    /\ header = IF auth.accessToken # <<>> THEN AuthorizationHeader(auth) ELSE <<>>
    /\ call = Idle /\ req = NoReq /\ nreq = 0 /\ ret = NoRet /\ res = NoRes

----------------------------------------------------------------------------
(* new URL(relative, origin) and URL.searchParams.get *)

IndexOf(s, c) ==
    IF \E i \in DOMAIN s : s[i] = c
    THEN CHOOSE i \in DOMAIN s : s[i] = c /\ \A j \in 1..(i - 1) : s[j] # c
    ELSE 0

UpTo(s, c)  == IF IndexOf(s, c) = 0 THEN s ELSE SubSeq(s, 1, IndexOf(s, c) - 1)
After(s, c) == IF IndexOf(s, c) = 0 THEN <<>> ELSE SubSeq(s, IndexOf(s, c) + 1, Len(s))

RECURSIVE SplitOn(_, _)
SplitOn(s, c) ==
    IF IndexOf(s, c) = 0 THEN <<s>> ELSE <<UpTo(s, c)>> \o SplitOn(After(s, c), c)

\* the fragment starts at the first '#', the query at the first '?' before it
NewUrl(relative, origin) ==
    LET noHash == UpTo(relative, "#") IN
    [origin   |-> origin,
     pathname |-> UpTo(noHash, "?"),
     search   |-> After(noHash, "?"),
     hash     |-> After(relative, "#")]

\* the value of the first name=value pair of the query, None when there is none
SearchParam(url, name) ==
    LET pairs == SplitOn(url.search, "&")
        hits  == {i \in DOMAIN pairs : UpTo(pairs[i], "=") = <<name>>}
    IN  IF hits = {} THEN None
        ELSE Some(After(pairs[CHOOSE i \in hits : \A j \in hits : i <= j], "="))

\* `${path}?client_id=${clientId}&response_type=code&state=${stateText}`
OAuthQuery(path, a) ==
    <<path, "?", "client_id", "=">> \o a.clientId
        \o <<"&", "response_type", "=", "code", "&", "state", "=">> \o a.stateText

----------------------------------------------------------------------------
(* The HTTP transport (axios): a request settles with a 2xx response, with   *)
(* another status (rejected) or without a response (rejected).               *)

NoBody   == [none |-> TRUE]
NoParams == [none |-> TRUE]

Request(method, url, params, body, extra) ==
    [method |-> method, url |-> url, params |-> params, body |-> body,
     authorization |-> header, headers |-> extra]

Rejections == {[status |-> 401], [status |-> 500], [status |-> 0]}
Fulfilled(datas) == {[status |-> 200, data |-> d] : d \in datas}
Is2xx(r) == r.status >= 200 /\ r.status < 300

\* how an invocation inv ends: with a value (a record: an entity, a URL,
\* [accessToken |-> ..] or [posts |-> ..]), or with an error thrown to its caller
Returned(inv, v) == [inv |-> inv, ok |-> TRUE, val |-> v, err |-> "", status |-> 0]
Failed(inv, e, status) ==
    [inv |-> inv, ok |-> FALSE, val |-> NoVal, err |-> e, status |-> status]
\* axios rejects the request: the await throws out of the method
Rejected(inv, r) ==
    Failed(inv, IF r.status = 0 THEN "Network Error" ELSE "Request failed", r.status)

\* an invocation that ends before any request
EndsEarly(r) ==
    /\ call = Idle
    /\ ret' = r
    /\ req' = NoReq /\ nreq' = 0 /\ res' = NoRes
    /\ UNCHANGED <<given, auth, header, call>>

\* an invocation that issues its request and suspends
Awaits(c, r) ==
    /\ call = Idle
    /\ call' = c
    /\ req' = r /\ nreq' = 1
    /\ ret' = NoRet /\ res' = NoRes
    /\ UNCHANGED <<given, auth, header>>

\* an invocation that resumes and ends with r, leaving the client as it is
Ends(r) ==
    /\ ret' = r
    /\ call' = Idle
    /\ UNCHANGED <<given, auth, header, req, nreq>>

----------------------------------------------------------------------------
(* Hydrobond: the client operations *)

getAuthorizeUrl ==
    /\ EndsEarly(IF auth.clientId = <<>>
                 THEN Failed([op |-> "getAuthorizeUrl"], "clientId is not set", 0)
                 ELSE Returned([op |-> "getAuthorizeUrl"],
                               NewUrl(OAuthQuery("/oauth/authorize", auth), Origin)))
    /\ UNCHANGED <<streamVars, modelVars>>

AuthCodes == {<<"code">>}

\* the clientSecret check left out
authorize_NoSecretCheck(authCode) ==
    /\ IF auth.clientId = <<>>
       THEN EndsEarly(Failed([op |-> "authorize", code |-> authCode],
                             "clientId is not set", 0))
       ELSE Awaits([op |-> "authorize", code |-> authCode],
                   Request("POST", OAuthQuery("/oauth/token", auth), NoParams,
                           [client_id |-> auth.clientId,
                            client_secret |-> auth.clientSecret,
                            code |-> authCode,
                            grant_type |-> "authorization_code",
                            state |-> auth.stateText],
                           <<>>))
    /\ UNCHANGED <<streamVars, modelVars>>

authorize(authCode) ==
    /\ IF auth.clientId = <<>>
       THEN EndsEarly(Failed([op |-> "authorize", code |-> authCode],
                             "clientId is not set", 0))
       ELSE IF auth.clientSecret = <<>>
       THEN EndsEarly(Failed([op |-> "authorize", code |-> authCode],
                             "clientSecret is not set", 0))
       ELSE Awaits([op |-> "authorize", code |-> authCode],
                   Request("POST", OAuthQuery("/oauth/token", auth), NoParams,
                           [client_id |-> auth.clientId,
                            client_secret |-> auth.clientSecret,
                            code |-> authCode,
                            grant_type |-> "authorization_code",
                            state |-> auth.stateText],
                           <<>>))
    /\ UNCHANGED <<streamVars, modelVars>>

\* what the token endpoint may answer with: a token, an object without
\* accessToken, or no object at all
TokenDatas ==
    {[body |-> "object", accessToken |-> x] : x \in Tokens \cup {UndefinedText}}
        \cup {[body |-> "null", accessToken |-> UndefinedText]}

\* the held token cleared when the token request is rejected
authorizeSettles_ClearsOnFailure(r) ==
    /\ call.op = "authorize"
    /\ res' = r
    /\ IF ~Is2xx(r)
       THEN /\ auth' = [auth EXCEPT !.accessToken = <<>>]
            /\ ret' = Rejected(call, r)
            /\ call' = Idle
            /\ UNCHANGED <<given, header, req, nreq>>
       ELSE IF r.data.body = "null" THEN Ends(Failed(call, "TypeError", 0))
       ELSE /\ auth' = [auth EXCEPT !.accessToken = r.data.accessToken]
            /\ header' = AuthorizationHeader(auth')
            /\ ret' = Returned(call, [accessToken |-> r.data.accessToken])
            /\ call' = Idle
            /\ UNCHANGED <<given, req, nreq>>
    /\ UNCHANGED <<streamVars, modelVars>>

\* the token stored, the default header left as it was
authorizeSettles_HeaderStale(r) ==
    /\ call.op = "authorize"
    /\ res' = r
    /\ IF ~Is2xx(r) THEN Ends(Rejected(call, r))
       ELSE IF r.data.body = "null" THEN Ends(Failed(call, "TypeError", 0))
       ELSE /\ auth' = [auth EXCEPT !.accessToken = r.data.accessToken]
            /\ ret' = Returned(call, [accessToken |-> r.data.accessToken])
            /\ call' = Idle
            /\ UNCHANGED <<given, header, req, nreq>>
    /\ UNCHANGED <<streamVars, modelVars>>

authorizeSettles(r) ==
    /\ call.op = "authorize"
    /\ res' = r
    /\ IF ~Is2xx(r) THEN Ends(Rejected(call, r))
       ELSE IF r.data.body = "null" THEN Ends(Failed(call, "TypeError", 0))
       ELSE /\ auth' = [auth EXCEPT !.accessToken = r.data.accessToken]
            /\ header' = AuthorizationHeader(auth')
            /\ ret' = Returned(call, [accessToken |-> r.data.accessToken])
            /\ call' = Idle
            /\ UNCHANGED <<given, req, nreq>>
    /\ UNCHANGED <<streamVars, modelVars>>

\* PostBody instances a caller holds: as constructed, or with a public field
\* assigned after construction
BodyRaws ==
    {Obj([text |-> x, fileIds |-> f]) :
        x \in {Str(0, "free"), Str(MaxTextLength, "free")},
        f \in {Undefined, Arr(<<Num(1)>>)}}
Assigned(b) ==
    {[b EXCEPT !.text = Str(MaxTextLength + Slack, "free")],
     [b EXCEPT !.fileIds = Arr(<<AText>>)]}

\* the fileIds left out of the request body
post_DropsFileIds(body, asBuilt) ==
    /\ Awaits([op |-> "post", body |-> body, asBuilt |-> asBuilt],
              Request("POST", <<"/api/v1/posts">>, NoParams,
                      [body EXCEPT !.fileIds = Undefined], <<>>))
    /\ UNCHANGED <<streamVars, modelVars>>

post(body, asBuilt) ==
    /\ Awaits([op |-> "post", body |-> body, asBuilt |-> asBuilt],
              Request("POST", <<"/api/v1/posts">>, NoParams, body, <<>>))
    /\ UNCHANGED <<streamVars, modelVars>>

GoodPost2 == With(GoodPost, "id", Num(6))
BadPost == With(GoodPost, "user", With(GoodUser, "screenName", AText))
PostDatas == {GoodPost, BadPost, With(GoodPost, "text", Undefined), Null}

\* a rejected request issued once more
postSettles_Retries(r) ==
    /\ call.op = "post"
    /\ res' = r
    /\ IF ~Is2xx(r) /\ nreq < 2
       THEN /\ nreq' = nreq + 1
            /\ UNCHANGED <<given, auth, header, call, req, ret>>
       ELSE IF ~Is2xx(r) THEN Ends(Rejected(call, r))
       ELSE IF r.data.t # "obj" THEN Ends(Failed(call, "Post", 0))
       ELSE LET p == Post(r.data) IN
            Ends(IF p.ok THEN Returned(call, p.val) ELSE Failed(call, p.err, 0))
    /\ UNCHANGED <<streamVars, modelVars>>

postSettles(r) ==
    /\ call.op = "post"
    /\ res' = r
    /\ IF ~Is2xx(r) THEN Ends(Rejected(call, r))
       ELSE IF r.data.t # "obj" THEN Ends(Failed(call, "Post", 0))
       ELSE LET p == Post(r.data) IN
            Ends(IF p.ok THEN Returned(call, p.val) ELSE Failed(call, p.err, 0))
    /\ UNCHANGED <<streamVars, modelVars>>

\* the limits of getTimeline's count
MinCount == 1
MaxCount == 100

Counts ==
    {None} \cup {Some(n) : n \in ((MinCount - Slack)..(MinCount + Slack))
                                \cup ((MaxCount - Slack)..(MaxCount + Slack))}
SinceIds == {None, Some(5)}

\* the lower limit left out
getTimeline_NoLowerLimit(sinceId, count) ==
    /\ IF count # None /\ count[1] > MaxCount
       THEN EndsEarly(Failed([op |-> "getTimeline", sinceId |-> sinceId, count |-> count],
                             "count must be less than or equal to 100", 0))
       ELSE Awaits([op |-> "getTimeline", sinceId |-> sinceId, count |-> count],
                   Request("GET", <<"/api/v1/timelines/public">>,
                           [sinceId |-> sinceId, count |-> count], NoBody, <<>>))
    /\ UNCHANGED <<streamVars, modelVars>>

getTimeline(sinceId, count) ==
    /\ IF count # None /\ count[1] > MaxCount
       THEN EndsEarly(Failed([op |-> "getTimeline", sinceId |-> sinceId, count |-> count],
                             "count must be less than or equal to 100", 0))
       ELSE IF count # None /\ count[1] < MinCount
       THEN EndsEarly(Failed([op |-> "getTimeline", sinceId |-> sinceId, count |-> count],
                             "count must be greater than or equal to 1", 0))
       ELSE Awaits([op |-> "getTimeline", sinceId |-> sinceId, count |-> count],
                   Request("GET", <<"/api/v1/timelines/public">>,
                           [sinceId |-> sinceId, count |-> count], NoBody, <<>>))
    /\ UNCHANGED <<streamVars, modelVars>>

TimelineDatas ==
    {Arr(s) : s \in SeqsUpTo({GoodPost, BadPost}, MaxArr)}
        \cup {Arr(<<GoodPost, GoodPost2>>), Arr(<<GoodPost2, GoodPost>>), Null}

\* the elements that fail to construct left out of the result
getTimelineSettles_SkipsInvalid(r) ==
    /\ call.op = "getTimeline"
    /\ res' = r
    /\ IF ~Is2xx(r) THEN Ends(Rejected(call, r))
       ELSE IF r.data.t # "arr" THEN Ends(Failed(call, "TypeError", 0))
       ELSE LET posts == [i \in DOMAIN r.data.e |-> Post(r.data.e[i])]
                Valid(p) == p.ok
                kept == SelectSeq(posts, Valid)
            IN  Ends(Returned(call, [posts |-> [i \in DOMAIN kept |-> kept[i].val]]))
    /\ UNCHANGED <<streamVars, modelVars>>

\* res.data.map(post => new Post(post)): the first element that fails throws
getTimelineSettles(r) ==
    /\ call.op = "getTimeline"
    /\ res' = r
    /\ IF ~Is2xx(r) THEN Ends(Rejected(call, r))
       ELSE IF r.data.t # "arr" THEN Ends(Failed(call, "TypeError", 0))
       ELSE LET posts == [i \in DOMAIN r.data.e |-> Post(r.data.e[i])] IN
            Ends(IF \A i \in DOMAIN posts : posts[i].ok
                 THEN Returned(call, [posts |-> [i \in DOMAIN posts |-> posts[i].val]])
                 ELSE Failed(call,
                             posts[CHOOSE i \in DOMAIN posts :
                                     ~posts[i].ok /\ \A j \in 1..(i - 1) : posts[j].ok].err,
                             0))
    /\ UNCHANGED <<streamVars, modelVars>>

Settings == {UserSettings(Obj([name |-> Str(MinNameLength, "free")])).val}

postUserSettings(setting) ==
    /\ Awaits([op |-> "postUserSettings"],
              Request("PATCH", <<"/api/v1/account">>, NoParams, setting, <<>>))
    /\ UNCHANGED <<streamVars, modelVars>>

UserDatas == {GoodUser, With(GoodUser, "name", Str(MaxNameLength + 1, "free")), Null}

postUserSettingsSettles(r) ==
    /\ call.op = "postUserSettings"
    /\ res' = r
    /\ IF ~Is2xx(r) THEN Ends(Rejected(call, r))
       ELSE LET u == User(r.data) IN
            Ends(IF u.ok THEN Returned(call, u.val)
                 ELSE Failed(call, u.err, 0))
    /\ UNCHANGED <<streamVars, modelVars>>

FolderIds == {None, Some(7)}

postFile(name, addDate, folderId) ==
    /\ Awaits([op |-> "postFile"],
              Request("POST", <<"/api/v1/album/files">>, NoParams,
                      [name |-> name, file |-> "stream", folderId |-> folderId,
                       ifNameConflicted |->
                           IF addDate THEN "add-date-string" ELSE "error"],
                      <<"multipart/form-data">>))
    /\ UNCHANGED <<streamVars, modelVars>>

FileDatas == {GoodFile, With(GoodFile, "name", Undefined), Null}

postFileSettles(r) ==
    /\ call.op = "postFile"
    /\ res' = r
    /\ IF ~Is2xx(r) THEN Ends(Rejected(call, r))
       ELSE LET f == File(r.data) IN
            Ends(IF f.ok THEN Returned(call, f.val) ELSE Failed(call, f.err, 0))
    /\ UNCHANGED <<streamVars, modelVars>>

Init ==
    /\ \E a \in Partials : \E rnd \in RandomStates : Constructed(a, rnd)
    /\ StreamIdle
    /\ ModelIdle

Next ==
    \/ getAuthorizeUrl
    \/ \E c \in AuthCodes : authorize(c)
    \/ \E r \in Fulfilled(TokenDatas) \cup Rejections : authorizeSettles(r)
    \/ \E raw \in BodyRaws : post(PostBody(raw).val, TRUE)
    \/ \E raw \in BodyRaws : \E b \in Assigned(PostBody(raw).val) : post(b, FALSE)
    \/ \E r \in Fulfilled(PostDatas) \cup Rejections : postSettles(r)
    \/ \E s \in SinceIds : \E c \in Counts : getTimeline(s, c)
    \/ \E r \in Fulfilled(TimelineDatas) \cup Rejections : getTimelineSettles(r)
    \/ \E s \in Settings : postUserSettings(s)
    \/ \E r \in Fulfilled(UserDatas) \cup Rejections : postUserSettingsSettles(r)
    \/ \E d \in BOOLEAN : \E f \in FolderIds : postFile(<<"a.png">>, d, f)
    \/ \E r \in Fulfilled(FileDatas) \cup Rejections : postFileSettles(r)

Spec == Init /\ [][Next]_vars

-----------------------------------------------------------------------------
(* The stream listener: Hydrobond.stream and torpedo's stream command.       *)
(* conns[c] is the c-th stream() call: its WebSocket, what the socket         *)
(* delivered (recv), what the listener sent on it (sent), the errors thrown   *)
(* out of its handlers (raised), the ws.close calls and the reconnect timer   *)
(* its close listener arms.                                                   *)

StreamName == <<"v1/timelines/public">>
\* setTimeout delays, in milliseconds
ReconnectDelay == 1000
KeepAliveDelay == 10000

\* inbound data: text that is not JSON, the JSON text null, or a JSON object
NotJson  == [json |-> "invalid", type |-> "", content |-> Undefined]
JsonNull == [json |-> "null", type |-> "", content |-> Undefined]
Frame(type, content) == [json |-> "object", type |-> type, content |-> content]

Inbound ==
    {NotJson, JsonNull}
      \cup {Frame(x, Undefined) : x \in {"ping", "success", "error", "other"}}
      \cup {Frame("message", c) : c \in {GoodPost, GoodPost2, BadPost, Undefined}}

\* outbound frames
Ping == [type |-> "ping", stream |-> <<>>, token |-> <<>>]
Connect(stream, token) == [type |-> "connect", stream |-> stream, token |-> token]

Event(c, ev, data) == [conn |-> c, ev |-> ev, data |-> data]

\* frames delivered so far, over all connections
RECURSIVE Delivered(_)
Delivered(cs) == IF cs = <<>> THEN 0 ELSE Len(Head(cs).recv) + Delivered(Tail(cs))

\* disconnect signals given so far, over all connections
RECURSIVE Signalled(_)
Signalled(cs) == IF cs = <<>> THEN 0 ELSE Head(cs).closeCalls + Signalled(Tail(cs))

\* the handshake sent right after the socket is created, not on 'open'
stream_SendsEarly(cs) ==
    /\ conns' = Append(cs, [name |-> StreamName, ws |-> "connecting", recv |-> <<>>,
                            sent |-> <<Connect(StreamName, auth.accessToken)>>,
                            raised |-> <<>>, closeCalls |-> 0,
                            timer |-> "none", delay |-> 0,
                            heldAtCall |-> auth.accessToken])
    /\ trace' = Append(trace, Event(Len(cs) + 1, "attempt", NoVal))
    /\ loops' = loops + 1

\* the keep-alive loop started by the first call only
stream_OneLoop(cs) ==
    /\ conns' = Append(cs, [name |-> StreamName, ws |-> "connecting", recv |-> <<>>,
                            sent |-> <<>>, raised |-> <<>>, closeCalls |-> 0,
                            timer |-> "none", delay |-> 0,
                            heldAtCall |-> auth.accessToken])
    /\ trace' = Append(trace, Event(Len(cs) + 1, "attempt", NoVal))
    /\ loops' = IF cs = <<>> THEN 1 ELSE loops

\* torpedo's stream(hydrobond): hydrobond.stream(name) creates the WebSocket
\* (a connection attempt) and the emitter; the command adds its listeners and
\* starts its keep-alive loop.  heldAtCall notes the token held at the call:
\* the code does not capture it, it is kept to compare with the handshake
stream(cs) ==
    /\ conns' = Append(cs, [name |-> StreamName, ws |-> "connecting", recv |-> <<>>,
                            sent |-> <<>>, raised |-> <<>>, closeCalls |-> 0,
                            timer |-> "none", delay |-> 0,
                            heldAtCall |-> auth.accessToken])
    /\ trace' = Append(trace, Event(Len(cs) + 1, "attempt", NoVal))
    /\ loops' = loops + 1

\* the stream command is run
streamCommand ==
    /\ running /\ conns = <<>>
    /\ stream(conns)
    /\ UNCHANGED <<running, clientVars, modelVars>>

\* a repeating timer (setInterval) in place of the one-shot timer
reconnect_Repeats(c) ==
    /\ running /\ conns[c].timer = "armed"
    /\ stream(conns)
    /\ UNCHANGED <<running, clientVars, modelVars>>

\* the reconnect timer of connection c fires: stream(hydrobond) again
reconnect(c) ==
    /\ running /\ conns[c].timer = "armed"
    /\ stream([conns EXCEPT ![c].timer = "fired"])
    /\ UNCHANGED <<running, clientVars, modelVars>>

\* the handshake sent with the token that was held when stream() was called
open_TokenAtCall(c) ==
    /\ running /\ conns[c].ws = "connecting"
    /\ conns' = [conns EXCEPT ![c].ws = "open",
                              ![c].sent = Append(@, Connect(conns[c].name,
                                                            conns[c].heldAtCall))]
    /\ UNCHANGED <<trace, loops, running, clientVars, modelVars>>

\* ws 'open': the handshake is sent with the token held now
open(c) ==
    /\ running /\ conns[c].ws = "connecting"
    /\ conns' = [conns EXCEPT ![c].ws = "open",
                              ![c].sent = Append(@, Connect(conns[c].name, auth.accessToken))]
    /\ UNCHANGED <<trace, loops, running, clientVars, modelVars>>

\* the socket closed by the handler that throws
Throws_ClosesSocket(cs, c, handler) ==
    /\ conns' = [cs EXCEPT ![c].raised = Append(@, handler),
                           ![c].closeCalls = @ + 1,
                           ![c].ws = "closing"]
    /\ running' = FALSE
    /\ UNCHANGED <<trace, loops>>

\* an error thrown out of a ws event handler is caught nowhere in the program:
\* it is an uncaught exception, which ends the Node process
Throws(cs, c, handler) ==
    /\ conns' = [cs EXCEPT ![c].raised = Append(@, handler)]
    /\ running' = FALSE
    /\ UNCHANGED <<trace, loops>>

\* the message handler has been handed data on connection c
Received(c, data) == [conns EXCEPT ![c].recv = Append(@, data)]

\* the content emitted as received, without constructing the Post
message_EmitsRaw(c, data) ==
    /\ running /\ conns[c].ws \in {"open", "closing"}
    /\ Delivered(conns) < MaxFrames
    /\ IF data.json # "object" THEN Throws(Received(c, data), c, "message")
       ELSE CASE data.type = "message" ->
                  /\ trace' = Append(trace, Event(c, "message", data.content))
                  /\ conns' = Received(c, data)
                  /\ UNCHANGED <<loops, running>>
              [] data.type = "ping" ->
                  /\ conns' = [Received(c, data) EXCEPT ![c].sent = Append(@, Ping)]
                  /\ UNCHANGED <<trace, loops, running>>
              [] data.type = "success" ->
                  /\ trace' = Append(trace, Event(c, "connect", NoVal))
                  /\ conns' = Received(c, data)
                  /\ UNCHANGED <<loops, running>>
              [] OTHER -> Throws(Received(c, data), c, "message")
    /\ UNCHANGED <<clientVars, modelVars>>

\* the 'ping' case falling through into the 'success' case
message_PingFallsThrough(c, data) ==
    /\ running /\ conns[c].ws \in {"open", "closing"}
    /\ Delivered(conns) < MaxFrames
    /\ IF data.json # "object" THEN Throws(Received(c, data), c, "message")
       ELSE CASE data.type = "message" ->
                  LET parsed == Post(data.content) IN
                  IF parsed.ok
                  THEN /\ trace' = Append(trace, Event(c, "message", parsed.val))
                       /\ conns' = Received(c, data)
                       /\ UNCHANGED <<loops, running>>
                  ELSE Throws(Received(c, data), c, "message")
              [] data.type = "ping" ->
                  /\ conns' = [Received(c, data) EXCEPT ![c].sent = Append(@, Ping)]
                  /\ trace' = Append(trace, Event(c, "connect", NoVal))
                  /\ UNCHANGED <<loops, running>>
              [] data.type = "success" ->
                  /\ trace' = Append(trace, Event(c, "connect", NoVal))
                  /\ conns' = Received(c, data)
                  /\ UNCHANGED <<loops, running>>
              [] OTHER -> Throws(Received(c, data), c, "message")
    /\ UNCHANGED <<clientVars, modelVars>>

\* a message whose content fails to construct skipped instead of thrown
message_SwallowsInvalid(c, data) ==
    /\ running /\ conns[c].ws \in {"open", "closing"}
    /\ Delivered(conns) < MaxFrames
    /\ IF data.json # "object" THEN Throws(Received(c, data), c, "message")
       ELSE CASE data.type = "message" ->
                  LET parsed == Post(data.content) IN
                  IF parsed.ok
                  THEN /\ trace' = Append(trace, Event(c, "message", parsed.val))
                       /\ conns' = Received(c, data)
                       /\ UNCHANGED <<loops, running>>
                  ELSE /\ conns' = Received(c, data)
                       /\ UNCHANGED <<trace, loops, running>>
              [] data.type = "ping" ->
                  /\ conns' = [Received(c, data) EXCEPT ![c].sent = Append(@, Ping)]
                  /\ UNCHANGED <<trace, loops, running>>
              [] data.type = "success" ->
                  /\ trace' = Append(trace, Event(c, "connect", NoVal))
                  /\ conns' = Received(c, data)
                  /\ UNCHANGED <<loops, running>>
              [] OTHER -> Throws(Received(c, data), c, "message")
    /\ UNCHANGED <<clientVars, modelVars>>

\* a frame of an unrecognised type ignored instead of thrown
message_IgnoresUnknown(c, data) ==
    /\ running /\ conns[c].ws \in {"open", "closing"}
    /\ Delivered(conns) < MaxFrames
    /\ IF data.json # "object" THEN Throws(Received(c, data), c, "message")
       ELSE CASE data.type = "message" ->
                  LET parsed == Post(data.content) IN
                  IF parsed.ok
                  THEN /\ trace' = Append(trace, Event(c, "message", parsed.val))
                       /\ conns' = Received(c, data)
                       /\ UNCHANGED <<loops, running>>
                  ELSE Throws(Received(c, data), c, "message")
              [] data.type = "ping" ->
                  /\ conns' = [Received(c, data) EXCEPT ![c].sent = Append(@, Ping)]
                  /\ UNCHANGED <<trace, loops, running>>
              [] data.type = "success" ->
                  /\ trace' = Append(trace, Event(c, "connect", NoVal))
                  /\ conns' = Received(c, data)
                  /\ UNCHANGED <<loops, running>>
              [] data.type = "error" -> Throws(Received(c, data), c, "message")
              [] OTHER ->
                  /\ conns' = Received(c, data)
                  /\ UNCHANGED <<trace, loops, running>>
    /\ UNCHANGED <<clientVars, modelVars>>

\* a message event delivered ahead of the events emitted before it
message_EmitsOutOfOrder(c, data) ==
    /\ running /\ conns[c].ws \in {"open", "closing"}
    /\ Delivered(conns) < MaxFrames
    /\ IF data.json # "object" THEN Throws(Received(c, data), c, "message")
       ELSE CASE data.type = "message" ->
                  LET parsed == Post(data.content) IN
                  IF parsed.ok
                  THEN /\ trace' = <<Event(c, "message", parsed.val)>> \o trace
                       /\ conns' = Received(c, data)
                       /\ UNCHANGED <<loops, running>>
                  ELSE Throws(Received(c, data), c, "message")
              [] data.type = "ping" ->
                  /\ conns' = [Received(c, data) EXCEPT ![c].sent = Append(@, Ping)]
                  /\ UNCHANGED <<trace, loops, running>>
              [] data.type = "success" ->
                  /\ trace' = Append(trace, Event(c, "connect", NoVal))
                  /\ conns' = Received(c, data)
                  /\ UNCHANGED <<loops, running>>
              [] OTHER -> Throws(Received(c, data), c, "message")
    /\ UNCHANGED <<clientVars, modelVars>>

\* a message accepted only after the connection's 'success' frame
message_AfterSuccessOnly(c, data) ==
    /\ running /\ conns[c].ws \in {"open", "closing"}
    /\ Delivered(conns) < MaxFrames
    /\ IF data.json # "object" THEN Throws(Received(c, data), c, "message")
       ELSE CASE data.type = "message" ->
                  LET parsed == Post(data.content) IN
                  IF parsed.ok /\ \E k \in DOMAIN conns[c].recv :
                                     conns[c].recv[k].type = "success"
                  THEN /\ trace' = Append(trace, Event(c, "message", parsed.val))
                       /\ conns' = Received(c, data)
                       /\ UNCHANGED <<loops, running>>
                  ELSE Throws(Received(c, data), c, "message")
              [] data.type = "ping" ->
                  /\ conns' = [Received(c, data) EXCEPT ![c].sent = Append(@, Ping)]
                  /\ UNCHANGED <<trace, loops, running>>
              [] data.type = "success" ->
                  /\ trace' = Append(trace, Event(c, "connect", NoVal))
                  /\ conns' = Received(c, data)
                  /\ UNCHANGED <<loops, running>>
              [] OTHER -> Throws(Received(c, data), c, "message")
    /\ UNCHANGED <<clientVars, modelVars>>

\* ws 'message': the message handler
message(c, data) ==
    /\ running /\ conns[c].ws \in {"open", "closing"}
    /\ Delivered(conns) < MaxFrames
    /\ IF data.json # "object" THEN Throws(Received(c, data), c, "message")
       ELSE CASE data.type = "message" ->
                  LET parsed == Post(data.content) IN
                  IF parsed.ok
                  THEN /\ trace' = Append(trace, Event(c, "message", parsed.val))
                       /\ conns' = Received(c, data)
                       /\ UNCHANGED <<loops, running>>
                  ELSE Throws(Received(c, data), c, "message")
              [] data.type = "ping" ->
                  /\ conns' = [Received(c, data) EXCEPT ![c].sent = Append(@, Ping)]
                  /\ UNCHANGED <<trace, loops, running>>
              [] data.type = "success" ->
                  /\ trace' = Append(trace, Event(c, "connect", NoVal))
                  /\ conns' = Received(c, data)
                  /\ UNCHANGED <<loops, running>>
              [] OTHER -> Throws(Received(c, data), c, "message")
    /\ UNCHANGED <<clientVars, modelVars>>

\* ws 'error': the error handler throws the error
error(c) ==
    /\ running /\ conns[c].ws # "closed"
    /\ "error" \notin {conns[c].raised[i] : i \in DOMAIN conns[c].raised}
    /\ Throws(conns, c, "error")
    /\ UNCHANGED <<clientVars, modelVars>>

\* the code the close event carries (abnormal closure)
CloseCodes == {1006}

\* no reconnect scheduled for a socket the consumer asked to close
close_StopsAfterDisconnect(c, code) ==
    /\ running /\ conns[c].ws # "closed"
    /\ Len(conns) < MaxConns
    /\ trace' = Append(trace, Event(c, "close", [code |-> code]))
    /\ conns' = IF conns[c].closeCalls > 0
                THEN [conns EXCEPT ![c].ws = "closed"]
                ELSE [conns EXCEPT ![c].ws = "closed",
                                   ![c].timer = "armed",
                                   ![c].delay = ReconnectDelay]
    /\ UNCHANGED <<loops, running, clientVars, modelVars>>

\* ws 'close': the close event is emitted, and torpedo's close listener arms
\* the reconnect timer
close(c, code) ==
    /\ running /\ conns[c].ws # "closed"
    /\ Len(conns) < MaxConns
    /\ trace' = Append(trace, Event(c, "close", [code |-> code]))
    /\ conns' = [conns EXCEPT ![c].ws = "closed",
                              ![c].timer = "armed",
                              ![c].delay = ReconnectDelay]
    /\ UNCHANGED <<loops, running, clientVars, modelVars>>

\* the consumer emits 'disconnect' on the emitter of connection c: ws.close().
\* A socket closed before it opened ("aborting") never opens and delivers no
\* frame; one closed while open ("closing") delivers the frames in flight
disconnect(c) ==
    /\ running /\ conns[c].ws # "closed"
    /\ Signalled(conns) < MaxSignals
    /\ conns' = [conns EXCEPT ![c].closeCalls = @ + 1,
                              ![c].ws = CASE @ = "connecting" -> "aborting"
                                          [] @ = "open" -> "closing"
                                          [] OTHER -> @]
    /\ UNCHANGED <<trace, loops, running, clientVars, modelVars>>

\* a keep-alive timer fires: loop() arms it again and does nothing else
loop ==
    /\ running /\ loops > 0
    /\ UNCHANGED vars

StreamInit ==
    /\ \E a \in {p \in Partials : p.clientId = Some(<<"a">>) /\ p.clientSecret = None
                                    /\ p.stateText = None /\ p.tokenType = None} :
          Constructed(a, <<"r1">>)
    /\ StreamIdle
    /\ ModelIdle

Reconnects == \E c \in DOMAIN conns : reconnect(c)

StreamNext ==
    \/ streamCommand
    \/ Reconnects
    \/ \E c \in DOMAIN conns : open(c)
    \/ \E c \in DOMAIN conns : \E d \in Inbound : message(c, d)
    \/ \E c \in DOMAIN conns : error(c)
    \/ \E c \in DOMAIN conns : \E code \in CloseCodes : close(c, code)
    \/ \E c \in DOMAIN conns : disconnect(c)
    \/ loop

StreamSpec == StreamInit /\ [][StreamNext]_vars

\* a running Node process fires every timer that is due
FairStreamSpec == StreamSpec /\ WF_vars(Reconnects)

-----------------------------------------------------------------------------
(* A program that uses one client for API calls and for the stream at once:  *)
(* the client operations, on one input each, interleaved with the stream     *)
(* listener's events.                                                        *)

SessionInit ==
    /\ \E a \in {p \in Partials : /\ p.accessToken = Some(<<"tok0">>)
                                  /\ p.clientId = Some(<<"a">>)
                                  /\ p.clientSecret = Some(<<"s">>)
                                  /\ p.stateText = None /\ p.tokenType = None} :
          Constructed(a, <<"r1">>)
    /\ StreamIdle
    /\ ModelIdle

\* the frames delivered while client calls are interleaved
SessionFrames == MaxFrames - 1

\* one frame for each path through the message handler
SessionInbound ==
    {NotJson, Frame("ping", Undefined), Frame("success", Undefined),
     Frame("error", Undefined), Frame("message", GoodPost), Frame("message", BadPost)}

ClientCalls ==
    \/ getAuthorizeUrl
    \/ authorize(<<"code">>)
    \/ post(PostBody(Obj([text |-> Str(0, "free"), fileIds |-> Undefined])).val, TRUE)
    \/ getTimeline(None, None)
    \/ \E s \in Settings : postUserSettings(s)
    \/ postFile(<<"a.png">>, FALSE, None)

ClientSettles ==
    \/ \E r \in Fulfilled({[body |-> "object", accessToken |-> <<"tok1">>]})
                   \cup {[status |-> 401]} : authorizeSettles(r)
    \/ \E r \in Fulfilled({GoodPost}) : postSettles(r)
    \/ \E r \in Fulfilled({Arr(<<GoodPost>>)}) : getTimelineSettles(r)
    \/ \E r \in Fulfilled({GoodUser}) : postUserSettingsSettles(r)
    \/ \E r \in Fulfilled({GoodFile}) : postFileSettles(r)

SessionNext ==
    \/ running /\ ClientCalls
    \/ running /\ ClientSettles
    \/ streamCommand
    \/ Reconnects
    \/ \E c \in DOMAIN conns : open(c)
    \/ \E c \in DOMAIN conns : \E d \in SessionInbound :
          Delivered(conns) < SessionFrames /\ message(c, d)
    \/ \E c \in DOMAIN conns : error(c)
    \/ \E c \in DOMAIN conns : \E code \in CloseCodes : close(c, code)
    \/ \E c \in DOMAIN conns : disconnect(c)
    \/ loop

SessionSpec == SessionInit /\ [][SessionNext]_vars

-----------------------------------------------------------------------------
(* Claims about the stream listener *)

\* the consumer-facing events of connection c, in the order observed
EventsOf(c) ==
    LET Mine(e) == e.conn = c /\ e.ev # "attempt" IN SelectSeq(trace, Mine)

\* where in the trace connection c was attempted / its close event was emitted
AttemptAt(c) == CHOOSE i \in DOMAIN trace : trace[i] = Event(c, "attempt", NoVal)
CloseAt(c)   == CHOOSE i \in DOMAIN trace : trace[i].conn = c /\ trace[i].ev = "close"
Closes(c)    == {i \in DOMAIN trace : trace[i].conn = c /\ trace[i].ev = "close"}
Attempts(c)  == {i \in DOMAIN trace : trace[i].conn = c /\ trace[i].ev = "attempt"}

\* the socket of connection c delivered 'success', then a 'message' with
\* content p, and then closed
Scripted(c, p) ==
    /\ c \in DOMAIN conns
    /\ conns[c].recv = <<Frame("success", Undefined), Frame("message", p)>>
    /\ conns[c].ws = "closed"

ValidContents == {p \in {GoodPost, GoodPost2, BadPost} : PostValidate(p) /\ NestedOk(p)}

C1_Observed ==
    \A c \in DOMAIN conns : \A p \in ValidContents :
        Scripted(c, p) =>
            /\ Len(EventsOf(c)) = 3
            /\ EventsOf(c)[1] = Event(c, "connect", NoVal)
            /\ EventsOf(c)[2].ev = "message"
            /\ EventsOf(c)[2].data = Post(p).val
            /\ EventsOf(c)[2].data.createdAt = NewDate(Get(p, "createdAt"))
            /\ EventsOf(c)[3].ev = "close"
            /\ conns[c].timer # "none" /\ conns[c].delay = 1000
            /\ Attempts(c + 1) # {} => CloseAt(c) < AttemptAt(c + 1)

\* C1: on a connection whose socket delivers 'success', then a 'message' with a
\* valid Post, then closes, the consumer observes exactly connect, message
\* (with the parsed Post), close, in that order, and after the 1000 ms delay a
\* new connection attempt is made.
C1_ScriptedConnection ==
    /\ []C1_Observed
    /\ \A c \in 1..MaxConns :
          (\E p \in ValidContents : Scripted(c, p)) ~> (Attempts(c + 1) # {})

\* the scripted connection has closed and the next attempt has been made
C1_Witness ==
    /\ Scripted(1, GoodPost)
    /\ Len(conns) = 2 /\ conns[1].timer = "fired"
    /\ Attempts(2) # {}

\* what the close handler and torpedo's close listener do on a close event
C2_EveryClose ==
    \A c \in DOMAIN conns :
        /\ conns[c].ws = "closed" <=> conns[c].timer # "none"
        /\ conns[c].timer # "none" => conns[c].delay = 1000
        /\ Cardinality(Closes(c)) = IF conns[c].ws = "closed" THEN 1 ELSE 0
        /\ Cardinality(Attempts(c)) = 1
        /\ conns[c].timer = "fired" <=> c + 1 \in DOMAIN conns
        /\ c + 1 \in DOMAIN conns =>
              /\ conns[c + 1].name = conns[c].name
              /\ CloseAt(c) < AttemptAt(c + 1)
              /\ \A i \in DOMAIN conns[c + 1].sent :
                    conns[c + 1].sent[i].type = "connect" =>
                        conns[c + 1].sent[i] = Connect(conns[c].name, auth.accessToken)

\* connection c is over: its socket closed, or a network failure or protocol
\* error was reported on it (to the error handler or the message handler)
Over(c) == c \in DOMAIN conns /\ (conns[c].ws = "closed" \/ conns[c].raised # <<>>)

\* C2: every end of a stream connection, whatever its cause (a close by the
\* server, a network failure, a protocol error, a disconnect signal), emits the
\* close event, arms one 1000 ms timer, and is eventually followed by exactly
\* one new listener for the same stream name and credentials, attempted after
\* the close event.
C2_CloseReconnects ==
    /\ []C2_EveryClose
    /\ \A c \in 1..(MaxConns - 1) : Over(c) ~> (c + 1 \in DOMAIN conns)

C3_Step ==
    \A c \in DOMAIN conns :
        (/\ Len(conns'[c].recv) = Len(conns[c].recv) + 1
         /\ conns'[c].recv[Len(conns'[c].recv)] = Frame("ping", Undefined))
        => /\ conns'[c].sent = Append(conns[c].sent, [type |-> "ping", stream |-> <<>>, token |-> <<>>])
           /\ trace' = trace
           /\ conns'[c].ws = conns[c].ws
           /\ conns'[c].timer = conns[c].timer
           /\ conns'[c].raised = conns[c].raised
           /\ running' = running
           /\ \A d \in DOMAIN conns : d # c => conns'[d] = conns[d]

\* C3: for every inbound 'ping' frame the listener sends exactly one
\* {type: "ping"} frame on the same socket, emits no consumer-facing event and
\* leaves the connection's state as it was.
C3_PingAnswered == [][C3_Step]_vars

\* a ping was answered on an open connection that emitted nothing
C3_Witness ==
    \E c \in DOMAIN conns :
        /\ conns[c].recv = <<Frame("ping", Undefined)>>
        /\ conns[c].sent = <<Connect(StreamName, auth.accessToken), Ping>>
        /\ EventsOf(c) = <<>>
        /\ conns[c].ws = "open"

-----------------------------------------------------------------------------
(* Error kinds: the errors the code throws, by where they are thrown *)

RangeErrors  == {"count must be less than or equal to 100",
                 "count must be greater than or equal to 1"}
ConfigErrors == {"clientId is not set", "clientSecret is not set"}
RemoteErrors == {"Request failed", "Network Error"}

Ended(op) == ret.inv.op = op

\* C4: getTimeline fails with a range error, without any HTTP request, when
\* count is given and below 1 or above 100; with count absent or within
\* [1,100] (1 and 100 included) it passes the check and issues the GET to
\* the public timeline.
C4_TimelineCount ==
    /\ Ended("getTimeline") =>
          LET c == ret.inv.count IN
          IF c # None /\ (c[1] < 1 \/ c[1] > 100)
          THEN ~ret.ok /\ ret.err \in RangeErrors /\ nreq = 0 /\ req = NoReq
          ELSE /\ ret.err \notin RangeErrors
               /\ nreq = 1 /\ req.method = "GET"
               /\ req.url = <<"/api/v1/timelines/public">>
               /\ req.params = [sinceId |-> ret.inv.sinceId, count |-> c]
    /\ call.op = "getTimeline" =>
          /\ call.count = None \/ (call.count[1] >= 1 /\ call.count[1] <= 100)
          /\ nreq = 1 /\ req.method = "GET"
          /\ req.url = <<"/api/v1/timelines/public">>

\* count = 1 passed the check and the call came back with posts
C4_Witness ==
    /\ Ended("getTimeline") /\ ret.inv.count = Some(1)
    /\ ret.ok /\ Len(ret.val.posts) = MaxArr /\ nreq = 1

\* C5: getAuthorizeUrl fails with a config error when clientId is ''; otherwise
\* it returns a URL on the endpoint's origin whose query has client_id equal
\* to the held clientId, response_type equal to 'code' and state equal to the
\* held stateText.
C5_AuthorizeUrl ==
    Ended("getAuthorizeUrl") =>
        IF auth.clientId = <<>>
        THEN ~ret.ok /\ ret.err \in ConfigErrors
        ELSE /\ ret.ok
             /\ ret.val.origin = Origin
             /\ SearchParam(ret.val, "client_id") = Some(auth.clientId)
             /\ SearchParam(ret.val, "response_type") = Some(<<"code">>)
             /\ SearchParam(ret.val, "state") = Some(auth.stateText)

\* C6: after authorize succeeds the held accessToken is the token the endpoint
\* returned and the default Authorization header is tokenType + ' ' + that
\* token; every request a client operation issues carries the default header,
\* which, once set, is always tokenType + ' ' + the held token.
C6_AuthorizeSetsHeader ==
    /\ Ended("authorize") /\ ret.ok =>
          /\ auth.accessToken = ret.val.accessToken
          /\ header = auth.tokenType \o <<" ">> \o ret.val.accessToken
    /\ call # Idle => req.authorization = header
    /\ header # <<>> => header = auth.tokenType \o <<" ">> \o auth.accessToken

\* a multipart upload issued after a successful authorize carries its header
C6_Witness ==
    /\ call.op = "postFile"
    /\ auth.accessToken = <<"tok2">> /\ auth.tokenType = <<"MAC">>
    /\ req.authorization = <<"MAC", " ", "tok2">>
    /\ req.headers # <<>>

\* C7: authorize fails with a config error, before any request, when clientId
\* or clientSecret is ''; it fails with a remote error when the endpoint
\* answers non-2xx; whenever it fails the held accessToken and the default
\* Authorization header are what they were before.
C7_Step ==
    ret' # ret /\ ret'.inv.op = "authorize" =>
        /\ auth.clientId = <<>> \/ auth.clientSecret = <<>> =>
              ~ret'.ok /\ ret'.err \in ConfigErrors /\ nreq' = 0 /\ req' = NoReq
        /\ ret'.status # 0 => ~ret'.ok /\ ret'.err \in RemoteErrors
        /\ ~ret'.ok => auth' = auth /\ header' = header

C7_AuthorizeFails == [][C7_Step]_vars

\* a client holding a token is refused by the endpoint
C7_Witness ==
    /\ Ended("authorize") /\ ~ret.ok /\ ret.status = 401
    /\ header = <<"Bearer", " ", "tok0">>

-----------------------------------------------------------------------------
(* The model layer on its own: one constructor call on one raw object *)

Classes == {"Application", "File", "Post", "PostBody", "User", "UserSettings"}

RawOf(c) ==
    CASE c = "Application"  -> RawApplications
      [] c = "File"         -> RawFiles
      [] c = "Post"         -> RawPosts
      [] c = "PostBody"     -> RawPostBodies
      [] c = "User"         -> RawUsers
      [] c = "UserSettings" -> RawUserSettings

Construct(c) ==
    /\ arg.cls = c
    /\ made = <<>>
    /\ made' = << CASE c = "Application"  -> Application(arg.raw)
                    [] c = "File"         -> File(arg.raw)
                    [] c = "Post"         -> Post(arg.raw)
                    [] c = "PostBody"     -> PostBody(arg.raw)
                    [] c = "User"         -> User(arg.raw)
                    [] c = "UserSettings" -> UserSettings(arg.raw) >>
    /\ UNCHANGED <<arg, clientVars, streamVars>>

NewApplication  == Construct("Application")
NewFile         == Construct("File")
NewPost         == Construct("Post")
NewPostBody     == Construct("PostBody")
NewUser         == Construct("User")
NewUserSettings == Construct("UserSettings")

ModelInit ==
    /\ \E c \in Classes : \E r \in RawOf(c) : arg = [cls |-> c, raw |-> r]
    /\ made = <<>>
    /\ given = [stateText |-> None, tokenType |-> None]
    /\ auth = [accessToken |-> "", clientId |-> <<>>, clientSecret |-> <<>>,
               stateText |-> <<>>, tokenType |-> "Bearer"]
    /\ header = <<>>
    /\ call = Idle /\ req = NoReq /\ nreq = 0 /\ ret = NoRet /\ res = NoRes
    /\ StreamIdle

ModelNext ==
    \/ NewApplication
    \/ NewFile
    \/ NewPost
    \/ NewPostBody
    \/ NewUser
    \/ NewUserSettings

ModelSpec == ModelInit /\ [][ModelNext]_vars

\* the constructor has run on a raw object of class c
Built(c) == arg.cls = c /\ made # <<>>

-----------------------------------------------------------------------------
\* C8: a PostBody is constructed exactly when its text is a string of at most
\* 512 characters and its fileIds is absent or a list of numbers; otherwise the
\* constructor throws (in particular 512 is accepted and 513 rejected).
C8_PostBodyLimit ==
    Built("PostBody") /\ IsObj(arg.raw) =>
        LET x == Get(arg.raw, "text")
            f == Get(arg.raw, "fileIds")
        IN  /\ made[1].ok <=>
                  /\ IsStr(x) /\ x.len <= 512
                  /\ (f = Undefined \/ (IsArr(f) /\ \A i \in DOMAIN f.e : f.e[i].t = "num"))
            /\ (IsStr(x) /\ x.len >= 513 => ~made[1].ok /\ made[1].err = "PostBody")
            /\ (made[1].ok => made[1].val.text = x /\ made[1].val.fileIds = f)

C8_Witness ==
    /\ Built("PostBody") /\ IsObj(arg.raw)
    /\ IsStr(Get(arg.raw, "text")) /\ Get(arg.raw, "text").len = 512
    /\ IsArr(Get(arg.raw, "fileIds")) /\ Len(Get(arg.raw, "fileIds").e) > 0
    /\ made[1].ok

\* C9: a Post is constructed only if its own fields validate and its
\* application, user and every file validate as Application, User and File;
\* a failing nested entity makes the whole construction throw, and a Post
\* that is produced holds exactly the validated nested instances.
C9_PostNested ==
    Built("Post") =>
        /\ made[1].ok => /\ PostValidate(arg.raw)
                         /\ NestedOk(arg.raw)
                         /\ made[1].val.application = Application(Get(arg.raw, "application")).val
                         /\ made[1].val.user = User(Get(arg.raw, "user")).val
                         /\ Len(made[1].val.files) = Len(Get(arg.raw, "files").e)
                         /\ \A i \in DOMAIN made[1].val.files :
                               made[1].val.files[i] = File(Get(arg.raw, "files").e[i]).val
        /\ (IsObj(arg.raw) /\ ~NestedOk(arg.raw)) => ~made[1].ok
        /\ ~made[1].ok => DOMAIN made[1] = {"ok", "err"}

\* own fields fine, application and user fine, second file invalid: thrown
C9_Witness ==
    /\ Built("Post") /\ PostValidate(arg.raw)
    /\ Application(Get(arg.raw, "application")).ok
    /\ User(Get(arg.raw, "user")).ok
    /\ Len(Get(arg.raw, "files").e) = 2
    /\ File(Get(arg.raw, "files").e[1]).ok
    /\ ~File(Get(arg.raw, "files").e[2]).ok
    /\ made[1] = Threw("File")

-----------------------------------------------------------------------------
(* Claims about the results of the client operations *)

\* the last invocation was op and its request was answered with a 2xx response
Answered(op) == Ended(op) /\ res # NoRes /\ res.status \in 200..299

\* a raw post that validates, its nested application, user and files included
ValidRaw(p) == PostValidate(p) /\ NestedOk(p)

\* C11: a successful getTimeline returns one validated Post per element of the
\* response, in the order of the response, none dropped, duplicated or
\* re-sorted; if any element fails validation the call fails and returns no
\* list at all.
C11_TimelineOrder ==
    Answered("getTimeline") /\ res.data.t = "arr" =>
        LET raw == res.data.e IN
        IF \A i \in DOMAIN raw : ValidRaw(raw[i])
        THEN /\ ret.ok
             /\ Len(ret.val.posts) = Len(raw)
             /\ \A i \in DOMAIN raw :
                   /\ ret.val.posts[i].id = Get(raw[i], "id")
                   /\ ret.val.posts[i].text = Get(raw[i], "text")
                   /\ ret.val.posts[i].user.screenName
                          = Get(Get(raw[i], "user"), "screenName")
                   /\ ret.val.posts[i].createdAt = NewDate(Get(raw[i], "createdAt"))
        ELSE ~ret.ok /\ ret.val = NoVal

\* two different valid posts came back in the order of the response
C11_Witness ==
    /\ Answered("getTimeline") /\ ret.ok
    /\ res.data = Arr(<<GoodPost2, GoodPost>>)
    /\ ret.val.posts[1].id = Num(6) /\ ret.val.posts[2].id = Get(GoodPost, "id")

\* a response with a valid post followed by an invalid one failed as a whole
C11_WitnessFails ==
    /\ Answered("getTimeline") /\ ~ret.ok
    /\ res.data = Arr(<<GoodPost, BadPost>>)

-----------------------------------------------------------------------------
(* Claims about the stream listener's signals, frames and errors *)

\* a disconnect signal on connection c: one more ws.close() call on its socket
Signals(c) == conns'[c].closeCalls # conns[c].closeCalls

C12_Step ==
    \A c \in DOMAIN conns :
        Signals(c) =>
            /\ conns'[c].closeCalls = conns[c].closeCalls + 1
            /\ conns[c].ws \in {"connecting", "open"} =>
                   conns'[c].ws \in {"aborting", "closing"}
            /\ conns'[c].timer = conns[c].timer
            /\ conns'[c].sent = conns[c].sent
            /\ trace' = trace
            /\ Len(conns') = Len(conns)
            /\ \A d \in DOMAIN conns : d # c => conns'[d] = conns[d]

\* connection c closed after the consumer signalled disconnect on it
ClosedOnSignal(c) ==
    c \in DOMAIN conns /\ conns[c].closeCalls > 0 /\ conns[c].ws = "closed"

C12_Closed ==
    \A c \in DOMAIN conns :
        ClosedOnSignal(c) =>
            /\ Cardinality(Closes(c)) = 1
            /\ conns[c].timer # "none" /\ conns[c].delay = 1000
            /\ Attempts(c + 1) # {} => CloseAt(c) < AttemptAt(c + 1)

\* C12: a disconnect signal calls close on that listener's socket once and
\* does nothing else; it does not prevent the reconnect: the close that
\* follows it emits the close event, arms the 1000 ms timer and is eventually
\* followed by a new connection attempt, like any other close.
C12_DisconnectReconnects ==
    /\ [][C12_Step]_vars
    /\ []C12_Closed
    /\ \A c \in 1..(MaxConns - 1) : ClosedOnSignal(c) ~> (Attempts(c + 1) # {})

\* a connection closed after a disconnect signal, and its successor is open
C12_Witness ==
    /\ Len(conns) = 2
    /\ ClosedOnSignal(1) /\ conns[1].closeCalls = 1 /\ conns[1].timer = "fired"
    /\ conns[2].ws = "open"

\* the handshake frame of a connection for the token held by the client
Handshake == [type |-> "connect", stream |-> <<"v1/timelines/public">>,
              token |-> auth.accessToken]

C13_Sent ==
    \A c \in DOMAIN conns :
        /\ conns[c].ws \in {"connecting", "aborting"} => conns[c].sent = <<>>
        /\ conns[c].ws \in {"open", "closing"} => conns[c].sent # <<>>
        /\ conns[c].sent # <<>> =>
              /\ conns[c].sent[1] = Handshake
              /\ \A i \in 2..Len(conns[c].sent) : conns[c].sent[i].type # "connect"

C13_Step ==
    \A c \in DOMAIN conns :
        /\ (conns[c].ws = "connecting" /\ conns'[c].ws = "open")
              => conns'[c].sent = <<Handshake>>
        /\ (conns[c].sent = <<>> /\ conns'[c].sent # <<>>)
              => (conns[c].ws = "connecting" /\ conns'[c].ws = "open")

\* C13: on every connection the first frame sent is the handshake
\* {type: "connect", stream: "v1/timelines/public", token: the held token};
\* it is sent exactly once, in the step in which the socket opens, and nothing
\* is sent on a socket that has not opened.
C13_Handshake == []C13_Sent /\ [][C13_Step]_vars

\* a closed socket had sent its handshake only, and the reconnected socket has
\* sent its own handshake and then answered a ping
C13_Witness ==
    /\ Len(conns) = 2
    /\ conns[1].sent = <<Handshake>> /\ conns[1].ws = "closed"
    /\ conns[2].sent = <<Handshake, [type |-> "ping", stream |-> <<>>, token |-> <<>>]>>
    /\ auth.accessToken # <<>>

\* connection c is handed frame f in this step
Receives(c, f) ==
    /\ Len(conns'[c].recv) = Len(conns[c].recv) + 1
    /\ conns'[c].recv[Len(conns'[c].recv)] = f

\* the handler of connection c throws in this step
Raises(c) == conns'[c].raised = Append(conns[c].raised, "message")

MessageContents == {GoodPost, GoodPost2, BadPost, [t |-> "undefined"]}

C14_Step ==
    \A c \in DOMAIN conns : \A p \in MessageContents :
        Receives(c, Frame("message", p)) =>
            IF ValidRaw(p)
            THEN /\ Len(trace') = Len(trace) + 1
                 /\ LET e == trace'[Len(trace')] IN
                       /\ e.conn = c /\ e.ev = "message"
                       /\ e.data.id = Get(p, "id")
                       /\ e.data.text = Get(p, "text")
                       /\ e.data.createdAt = NewDate(Get(p, "createdAt"))
                       /\ e.data.user.screenName = Get(Get(p, "user"), "screenName")
                 /\ conns'[c].raised = conns[c].raised
                 /\ running' = running
            ELSE /\ trace' = trace
                 /\ Raises(c)

\* C14: for an inbound 'message' frame a message event is emitted if and only
\* if the content validates as a Post (nested entities included), and the
\* event carries the Post built from that content; when the content fails
\* validation no event is emitted and the handler throws.
C14_MessageIffValid == [][C14_Step]_vars

\* one message was emitted, and a later message with an invalid user threw
C14_Witness ==
    \E c \in DOMAIN conns :
        /\ conns[c].recv = <<Frame("message", GoodPost), Frame("message", BadPost)>>
        /\ Len(EventsOf(c)) = 1 /\ EventsOf(c)[1].ev = "message"
        /\ conns[c].raised = <<"message">>

C15_Step ==
    \A c \in DOMAIN conns : \A x \in {"error", "other"} :
        Receives(c, Frame(x, [t |-> "undefined"])) =>
            /\ Raises(c)
            /\ trace' = trace
            /\ conns'[c].sent = conns[c].sent

\* C15: an inbound frame of type 'error', or of a type that is none of
\* 'message', 'ping', 'success', makes the handler throw, emits no connect or
\* message event and sends nothing on the socket.
C15_ErrorFrames == [][C15_Step]_vars

\* a frame of an unrecognised type arrived after 'success' and threw
C15_Witness ==
    \E c \in DOMAIN conns :
        /\ conns[c].recv = <<Frame("success", Undefined), Frame("other", Undefined)>>
        /\ conns[c].raised = <<"message">>
        /\ Len(EventsOf(c)) = 1
        /\ Len(conns[c].sent) = 1

\* the operations that talk to the server
RemoteOps == {"authorize", "post", "getTimeline", "postUserSettings", "postFile"}

\* C16: every client operation issues at most one HTTP request per invocation
\* and never retries: a non-2xx response or a transport failure ends the
\* invocation, with the failure thrown to its caller.
C16_SingleShot ==
    /\ nreq \in {0, 1}
    /\ call # Idle => call.op \in RemoteOps /\ nreq = 1 /\ req # NoReq /\ res = NoRes
    /\ (res # NoRes /\ res.status \notin 200..299) =>
          /\ call = Idle
          /\ ret.inv.op \in RemoteOps
          /\ ~ret.ok /\ ret.val = NoVal
          /\ ret.err \in {"Request failed", "Network Error"}
          /\ ret.status = res.status
          /\ nreq = 1

\* an upload answered with 500 ended with that failure after its one request
C16_Witness ==
    /\ Ended("postFile") /\ res # NoRes /\ res.status = 500
    /\ ~ret.ok /\ ret.status = 500 /\ nreq = 1

\* an authorize call ends in this step by returning a token
AuthorizeSucceeds ==
    /\ call # Idle /\ call.op = "authorize"
    /\ call' = Idle /\ ret'.ok

C17_Step ==
    /\ auth'.clientId = auth.clientId
    /\ auth'.clientSecret = auth.clientSecret
    /\ auth'.stateText = auth.stateText
    /\ auth'.tokenType = auth.tokenType
    /\ auth'.accessToken # auth.accessToken => AuthorizeSucceeds
    /\ AuthorizeSucceeds =>
          /\ res'.status \in 200..299
          /\ auth'.accessToken = res'.data.accessToken
          /\ auth'.accessToken = ret'.val.accessToken

\* C17: the held accessToken is written only by authorize, in the step in
\* which a call of it succeeds, with the token of the response; no other
\* operation, no failing authorize and no stream event handler changes
\* accessToken, and nothing changes clientId, clientSecret, stateText or
\* tokenType.
C17_TokenWrittenByAuthorize == [][C17_Step]_vars

\* authorize replaced the token while a stream connection that had sent its
\* handshake and answered a frame was open
C17_Witness ==
    /\ Ended("authorize") /\ ret.ok
    /\ auth.accessToken = <<"tok1">> /\ given.stateText = None
    /\ Len(conns) >= 1 /\ conns[1].ws = "open"
    /\ conns[1].sent # <<>> /\ conns[1].sent[1].token # <<"tok1">>
    /\ Len(conns[1].recv) = 1

\* the frames of connection c that cause an event, and the connect and
\* message events of connection c, each in order
Causes(c) ==
    LET Emits(f) == /\ f.json = "object"
                    /\ \/ f.type = "success"
                       \/ f.type = "message" /\ ValidRaw(f.content)
    IN  SelectSeq(conns[c].recv, Emits)
Emitted(c) ==
    LET Caused(e) == e.conn = c /\ e.ev \in {"connect", "message"}
    IN  SelectSeq(trace, Caused)

\* C18: within one connection the events are emitted in the arrival order of
\* the frames that cause them, one event per frame: the message events of any
\* two message frames come in the order of the frames, none reordered,
\* dropped or duplicated.
C18_ArrivalOrder ==
    \A c \in DOMAIN conns :
        /\ Len(Emitted(c)) = Len(Causes(c))
        /\ \A i \in DOMAIN Causes(c) :
              IF Causes(c)[i].type = "success"
              THEN Emitted(c)[i].ev = "connect"
              ELSE /\ Emitted(c)[i].ev = "message"
                   /\ Emitted(c)[i].data.id = Get(Causes(c)[i].content, "id")

\* two different posts arrived on one connection and were emitted in that order
C18_Witness ==
    \E c \in DOMAIN conns :
        /\ conns[c].recv = <<Frame("message", GoodPost2), Frame("message", GoodPost)>>
        /\ Len(Emitted(c)) = 2
        /\ Emitted(c)[1].data.id = Num(6) /\ Emitted(c)[2].data.id # Num(6)

\* the value of the state parameter of a request URL or a returned URL
StateParam(url) == SearchParam(url, "state")

C19_State ==
    /\ IF given.stateText \notin {None, Some(<<>>)}
       THEN auth.stateText = given.stateText[1]
       ELSE auth.stateText \in {<<"r1">>, <<"r2">>}
    /\ given.tokenType = None => auth.tokenType = <<"Bearer">>
    /\ (Ended("getAuthorizeUrl") /\ ret.ok) => StateParam(ret.val) = Some(auth.stateText)
    /\ (req # NoReq /\ req.method = "POST" /\ req.url[1] = "/oauth/token") =>
          /\ req.body.state = auth.stateText
          /\ StateParam(NewUrl(req.url, Origin)) = Some(auth.stateText)

\* C19: the stateText of a client is the supplied value if that is non-empty
\* and a generated one otherwise, and never changes afterwards, so every URL
\* getAuthorizeUrl returns and every token request of authorize carries that
\* same state value; tokenType is 'Bearer' when none is supplied.
C19_StateFixed ==
    /\ []C19_State
    /\ [][auth'.stateText = auth.stateText /\ auth'.tokenType = auth.tokenType]_vars

\* a throw out of the message handler on connection c, in this step
Fatal(c) == conns'[c].raised # conns[c].raised /\ Len(conns'[c].recv) > Len(conns[c].recv)

C20_Step ==
    \A c \in DOMAIN conns :
        /\ Fatal(c) =>
              /\ conns'[c].ws = conns[c].ws
              /\ conns'[c].closeCalls = conns[c].closeCalls
              /\ conns'[c].timer = conns[c].timer
              /\ conns'[c].sent = conns[c].sent
              /\ trace' = trace
              /\ Len(conns') = Len(conns)
        /\ conns'[c].timer # conns[c].timer /\ conns[c].timer = "none" =>
              /\ conns'[c].ws = "closed" /\ conns[c].ws # "closed"
              /\ Len(trace') = Len(trace) + 1
              /\ trace'[Len(trace')].conn = c /\ trace'[Len(trace')].ev = "close"

C20_Timers ==
    \A c \in DOMAIN conns : conns[c].timer # "none" <=> Closes(c) # {}

\* C20: a frame on which the message handler throws (type 'error', an
\* unrecognised type, unparseable JSON, a message whose content fails Post
\* validation) does not close the socket, emit a close event or schedule a
\* reconnect: the error leaves the handler, and a reconnect timer is armed
\* only in the step in which the socket's own close event fires.
C20_FatalFrameDoesNotClose == [][C20_Step]_vars /\ []C20_Timers

\* the handler threw on text that is not JSON, on an open socket that had
\* emitted connect: the socket is still open and no timer is armed
C20_Witness ==
    \E c \in DOMAIN conns :
        /\ conns[c].recv = <<Frame("success", Undefined), NotJson>>
        /\ conns[c].raised = <<"message">>
        /\ conns[c].ws = "open" /\ conns[c].timer = "none"
        /\ Closes(c) = {}

-----------------------------------------------------------------------------
(* Claims about the sockets and timers of the stream command *)

\* the connections whose socket has not closed
Live == {c \in DOMAIN conns : conns[c].ws # "closed"}

C21_Sockets ==
    /\ Cardinality(Live) <= 1
    /\ \A c \in DOMAIN conns :
          /\ Cardinality(Attempts(c)) = 1
          /\ Cardinality(Closes(c)) <= 1
          /\ c > 1 =>
                /\ conns[c - 1].ws = "closed" /\ conns[c - 1].timer = "fired"
                /\ Closes(c - 1) # {} /\ CloseAt(c - 1) < AttemptAt(c)
          /\ (conns[c].ws = "closed" /\ c + 1 \notin DOMAIN conns) =>
                conns[c].timer = "armed"

C21_Step ==
    Len(conns') > Len(conns) =>
        /\ Len(conns') = Len(conns) + 1
        /\ conns = <<>> \/
              /\ conns[Len(conns)].timer = "armed"
              /\ conns'[Len(conns)].timer = "fired"
              /\ Closes(Len(conns)) # {}

\* C21: from a single stream() call, at most one socket is not yet closed at
\* any moment: a new socket is created only by the reconnect timer of a
\* connection whose close event has fired, and each close arms one timer,
\* which creates one socket.
C21_OneLiveSocket == []C21_Sockets /\ [][C21_Step]_vars

\* the first socket closed, its timer fired and the second socket is the only
\* one not closed
C21_Witness ==
    /\ Len(conns) = 2
    /\ conns[1].timer = "fired"
    /\ Live = {2} /\ conns[2].ws = "open"

\* the socket of connection c opens in this step
Opens(c) == conns[c].ws = "connecting" /\ conns'[c].ws = "open"

C22_Step ==
    \A c \in DOMAIN conns :
        Opens(c) =>
            /\ conns'[c].sent = <<[type |-> "connect", stream |-> conns[c].name,
                                  token |-> auth.accessToken]>>
            /\ auth' = auth

\* C22: the token of a connection's handshake is the accessToken the client
\* holds in the step in which the socket opens, not the one held when stream()
\* was called: after an authorize that completes between the call and the
\* open, the handshake carries the new token; the same holds for the socket of
\* a reconnect.
C22_TokenAtOpen == [][C22_Step]_vars

\* the token was replaced between the reconnect's stream() call and the open
\* of its socket, and the handshake carries the new token
C22_Witness ==
    /\ Len(conns) = 2
    /\ conns[2].ws = "open"
    /\ conns[2].heldAtCall # <<"tok1">>
    /\ conns[2].sent = <<[type |-> "connect", stream |-> <<"v1/timelines/public">>,
                         token |-> <<"tok1">>]>>
    /\ auth.accessToken = <<"tok1">>

\* the event appended to the trace in this step, if exactly one is
Appends(c, ev) ==
    /\ Len(trace') = Len(trace) + 1
    /\ trace'[Len(trace')].conn = c
    /\ trace'[Len(trace')].ev = ev
    /\ SubSeq(trace', 1, Len(trace)) = trace

C23_Step ==
    \A c \in DOMAIN conns :
        /\ \A p \in ValidContents :
              Receives(c, Frame("message", p)) =>
                  /\ Appends(c, "message")
                  /\ trace'[Len(trace')].data.id = Get(p, "id")
        /\ Receives(c, Frame("success", [t |-> "undefined"])) => Appends(c, "connect")

\* C23: the listener keeps no handshake state: a valid 'message' frame is
\* emitted as a message event whether or not a 'success' frame came before it
\* on the connection, and every 'success' frame emits one connect event, also
\* when connect was emitted before.
C23_NoHandshakeState == [][C23_Step]_vars

\* a connection emitted message before connect
C23_Witness ==
    \E c \in DOMAIN conns :
        /\ conns[c].recv = <<Frame("message", GoodPost), Frame("success", Undefined)>>
        /\ Len(EventsOf(c)) = 2
        /\ EventsOf(c)[1].ev = "message" /\ EventsOf(c)[2].ev = "connect"

\* a connection emitted connect twice
C23_WitnessTwice ==
    \E c \in DOMAIN conns :
        /\ conns[c].recv = <<Frame("success", Undefined), Frame("success", Undefined)>>
        /\ Len(EventsOf(c)) = 2
        /\ EventsOf(c)[1].ev = "connect" /\ EventsOf(c)[2].ev = "connect"

\* automatic reconnects made so far: close timers that fired and called stream()
ReconnectsMade == Cardinality({c \in DOMAIN conns : conns[c].timer = "fired"})

C24_Armed ==
    /\ KeepAliveDelay = 10000
    /\ loops = (IF conns = <<>> THEN 0 ELSE ReconnectsMade + 1)

C24_Step ==
    /\ loops' >= loops
    /\ Len(conns') = Len(conns) + 1 => loops' = loops + 1
    /\ loops' # loops => Len(conns') = Len(conns) + 1

\* C24: every stream() call, the first and each automatic reconnect, starts
\* one more 10-second keep-alive loop; none is cancelled, so after n reconnects
\* n+1 loops are armed, and the number of loops never decreases.
C24_KeepAliveLoops == []C24_Armed /\ [][C24_Step]_vars

\* one reconnect made: two loops armed
C24_Witness ==
    /\ Len(conns) = 2 /\ conns[1].timer = "fired" /\ ReconnectsMade = 1
    /\ loops = 2 /\ running

====
